---- MODULE Spec2Model ----
(***************************************************************************)
(* Model of BatchOperatorTrigger (airflow/providers/amazon/aws/triggers/   *)
(* batch.py): the asynchronous generator run() that polls a Batch job      *)
(* through a boto waiter, with the trigger's constructor arguments, the    *)
(* cached hook, the scoped client connection and the emitted events.       *)
(***************************************************************************)
EXTENDS Integers, Sequences, FiniteSets, TLC

(* ---------------- bounds of the model ---------------- *)

\* largest max_retries explored (the constructor accepts any int)
MaxRetries == 3
\* how many times run() is started on the same trigger object
MaxRuns == 2

(* ---------------- program constants ---------------- *)

\* WaiterConfig "MaxAttempts": one describe call per waiter.wait
WaiterMaxAttempts == 1

(* ---------------- input domains ---------------- *)

JobIds == {"job-42", "job-7"}
AwsConnIds == {"aws_default", "aws_other"}
RegionNames == {"None", "eu-west-1"}
PollIntervals == {1, 30}
MaxRetriesValues == (0 - 1) .. MaxRetries

\* str(error) of a botocore WaiterError, as a sequence of text fragments
MaxAttemptsText == <<"Waiter batch_job_complete failed: ", "Max attempts exceeded">>
TerminalText == <<"Waiter batch_job_complete failed: ", "Waiter encountered a ",
                  "terminal failure", " state">>
JobKilledText == <<"terminal failure", ": ", "job killed">>
ErrorTexts == {MaxAttemptsText, TerminalText, JobKilledText}

\* what one await of waiter.wait can produce: a normal return, a WaiterError
\* (with its text, and whether last_response carries jobs[0].status), or any
\* other exception
Responses ==
    {[kind |-> "ok"], [kind |-> "OtherError"]}
    \cup [kind : {"WaiterError"}, text : ErrorTexts, has_status : BOOLEAN]

(* ---------------- text helpers ---------------- *)

\* the Python test  fragment in text
Contains(text, fragment) == \E i \in 1 .. Len(text) : text[i] = fragment

(* ---------------- state ---------------- *)

VARIABLES
    job_id, max_retries, aws_conn_id, region_name, poll_interval,
    hook, conn_held, attempt, pc, events, queries, responses, sleeps,
    cancel, run, prev,
    serialized, earlier_queries, dd

request == <<job_id, max_retries, aws_conn_id, region_name, poll_interval>>
vars == <<job_id, max_retries, aws_conn_id, region_name, poll_interval,
          hook, conn_held, attempt, pc, events, queries, responses, sleeps,
          cancel, run, prev, serialized, earlier_queries, dd>>

\* what BatchOperatorTrigger.run never touches: the serialized form kept by
\* the host, the queries made by earlier incarnations of the trigger, and the
\* Datadog hook
others == <<serialized, earlier_queries, dd>>

NoHook == [cached |-> FALSE]
NoCancel == [requested |-> FALSE]
NoPrev == [valid |-> FALSE]
NoSerialized == [valid |-> FALSE]
\* the Datadog hook with no call in progress
DdIdle == [pc |-> "idle"]

\* __init__: the five constructor arguments are stored; nothing else is set
Init ==
    /\ job_id \in JobIds
    /\ max_retries \in MaxRetriesValues
    /\ aws_conn_id \in AwsConnIds
    /\ region_name \in RegionNames
    /\ poll_interval \in PollIntervals
    /\ hook = NoHook
    /\ conn_held = FALSE
    /\ attempt = 0
    /\ pc = "start"
    /\ events = <<>>
    /\ queries = <<>>
    /\ responses = <<>>
    /\ sleeps = <<>>
    /\ cancel = NoCancel
    /\ run = 1
    /\ prev = NoPrev
    /\ serialized = NoSerialized
    /\ earlier_queries = 0
    /\ dd = DdIdle

(* ---------------- pieces of run() ---------------- *)

\* the cached_property hook: built from the connection arguments on first
\* use, the same object on every later use
HookProperty ==
    IF hook.cached THEN hook
    ELSE [cached |-> TRUE, aws_conn_id |-> aws_conn_id, region_name |-> region_name]

\* variant: the counter starts at one
InitialAttempt_One == 0 + 1

\* attempt = 0
InitialAttempt == 0

\* variant: the loop test lets one more iteration through
LoopCondition_OffByOne(a, m) == a <= m

\* while attempt < self.max_retries
LoopCondition(a, m) == a < m

\* the arguments of one waiter.wait call, and the hook whose client it uses
WaitCall(h) ==
    [jobs |-> <<job_id>>, Delay |-> poll_interval,
     MaxAttempts |-> WaiterMaxAttempts, hook |-> h]

\* variant: the text looked for is spelled with capitals
IsTerminalFailure_Capitalised(error) == Contains(error.text, "Terminal Failure")

\* "terminal failure" in str(error)
IsTerminalFailure(error) == Contains(error.text, "terminal failure")

\* variant: the except clause re-raises a WaiterError that is not terminal
Classify_ReraiseTransient(r) ==
    CASE r.kind = "ok" -> "break"
      [] r.kind = "WaiterError" /\ Contains(r.text, "terminal failure") -> "yield"
      [] OTHER -> "raise"

\* variant: the except clause raises on a terminal failure instead of yielding
Classify_RaiseTerminal(r) ==
    CASE r.kind = "ok" -> "break"
      [] r.kind = "WaiterError" /\ ~Contains(r.text, "terminal failure")
            /\ r.has_status -> "sleep"
      [] OTHER -> "raise"

\* variant: a terminal failure only breaks, leaving the event to the code
\* after the loop
Classify_TerminalBreaks(r) ==
    CASE r.kind = "ok" -> "break"
      [] r.kind = "WaiterError" /\ Contains(r.text, "terminal failure") -> "break"
      [] r.kind = "WaiterError" /\ r.has_status -> "sleep"
      [] OTHER -> "raise"

\* what the try/except does with the result of one wait:
\*   "break"  the wait returned,
\*   "yield"  WaiterError with the terminal-failure text,
\*   "sleep"  any other WaiterError (its last_response status is logged),
\*   "raise"  the exception leaves run(): not a WaiterError, or the log line
\*            fails on a last_response without jobs[0].status
Classify(r) ==
    CASE r.kind = "ok" -> "break"
      [] r.kind = "WaiterError" /\ IsTerminalFailure(r) -> "yield"
      [] r.kind = "WaiterError" /\ ~IsTerminalFailure(r) /\ r.has_status -> "sleep"
      [] OTHER -> "raise"

\* TriggerEvent({"status": "failure", "message": f"Delete Cluster Failed: {error}"})
TerminalFailureEvent(error) ==
    [status |-> "failure", message |-> <<"Delete Cluster Failed: ">> \o error.text]

\* the event of the if/else after the loop
PostLoopEvent(a, m, j) ==
    IF a >= m
    THEN [status |-> "failure",
          message |-> <<"Job Failed - ", "max attempts reached", ".">>]
    ELSE [status |-> "success", job_id |-> j]

(* ---------------- actions ---------------- *)

\* variant: the counter lives on the trigger object and run() does not
\* set it
Enter_KeepAttempt ==
    /\ pc = "start"
    /\ hook' = HookProperty
    /\ conn_held' = TRUE
    /\ pc' = "loop"
    /\ UNCHANGED <<request, attempt, events, queries, responses, sleeps, cancel,
                   run, prev, others>>

\* variant: a reconstructed trigger resumes the counter of its predecessor
Enter_ResumeCounter ==
    /\ pc = "start"
    /\ hook' = HookProperty
    /\ conn_held' = TRUE
    /\ attempt' = IF earlier_queries > 0 THEN attempt ELSE 0
    /\ pc' = "loop"
    /\ UNCHANGED <<request, events, queries, responses, sleeps, cancel, run, prev,
                   others>>

\* async with self.hook.async_conn as client; get_waiter; attempt = 0
Enter ==
    /\ pc = "start"
    /\ hook' = HookProperty
    /\ conn_held' = TRUE
    /\ attempt' = InitialAttempt
    /\ pc' = "loop"
    /\ UNCHANGED <<request, events, queries, responses, sleeps, cancel, run, prev, others>>

\* variant: the counter is not incremented
LoopIter_NoCount ==
    /\ pc = "loop"
    /\ IF attempt < max_retries
       THEN /\ queries' = Append(queries, WaitCall(hook))
            /\ pc' = "query"
            /\ UNCHANGED <<attempt, conn_held>>
       ELSE /\ conn_held' = FALSE
            /\ pc' = "post_loop"
            /\ UNCHANGED <<attempt, queries>>
    /\ UNCHANGED <<request, hook, events, responses, sleeps, cancel, run, prev, others>>

\* the loop test; when it holds, attempt = attempt + 1 and waiter.wait is
\* awaited; when it fails, the loop and the async with block are left
LoopIter ==
    /\ pc = "loop"
    /\ IF LoopCondition(attempt, max_retries)
       THEN /\ attempt' = attempt + 1
            /\ queries' = Append(queries, WaitCall(hook))
            /\ pc' = "query"
            /\ UNCHANGED conn_held
       ELSE /\ conn_held' = FALSE
            /\ pc' = "post_loop"
            /\ UNCHANGED <<attempt, queries>>
    /\ UNCHANGED <<request, hook, events, responses, sleeps, cancel, run, prev, others>>

\* the awaited wait completes with r
WaitReturns ==
    /\ pc = "query"
    /\ \E r \in Responses :
        /\ responses' = Append(responses, r)
        /\ CASE Classify(r) = "break" ->
                  /\ conn_held' = FALSE
                  /\ pc' = "post_loop"
                  /\ UNCHANGED events
             [] Classify(r) = "yield" ->
                  /\ events' = Append(events, TerminalFailureEvent(r))
                  /\ pc' = "yield_loop"
                  /\ UNCHANGED conn_held
             [] Classify(r) = "sleep" ->
                  /\ pc' = "sleep"
                  /\ UNCHANGED <<events, conn_held>>
             [] OTHER ->
                  /\ conn_held' = FALSE
                  /\ pc' = "raised"
                  /\ UNCHANGED events
    /\ UNCHANGED <<request, hook, attempt, queries, sleeps, cancel, run, prev, others>>

\* the consumer asks for the next event after the one yielded in the loop:
\* break, leaving the loop and the async with block
ResumeInLoop ==
    /\ pc = "yield_loop"
    /\ conn_held' = FALSE
    /\ pc' = "post_loop"
    /\ UNCHANGED <<request, hook, attempt, events, queries, responses, sleeps,
                   cancel, run, prev, others>>

\* variant: no sleep after the last allowed attempt
SleepReturns_SkipLast ==
    /\ pc = "sleep"
    /\ sleeps' = IF attempt < max_retries THEN Append(sleeps, poll_interval) ELSE sleeps
    /\ pc' = "loop"
    /\ UNCHANGED <<request, hook, conn_held, attempt, events, queries, responses,
                   cancel, run, prev, others>>

\* await asyncio.sleep(int(self.poll_interval)) completes
SleepReturns ==
    /\ pc = "sleep"
    /\ sleeps' = Append(sleeps, poll_interval)
    /\ pc' = "loop"
    /\ UNCHANGED <<request, hook, conn_held, attempt, events, queries, responses,
                   cancel, run, prev, others>>

\* the if/else after the async with block yields its event
PostLoop ==
    /\ pc = "post_loop"
    /\ events' = Append(events, PostLoopEvent(attempt, max_retries, job_id))
    /\ pc' = "yield_post"
    /\ UNCHANGED <<request, hook, conn_held, attempt, queries, responses, sleeps,
                   cancel, run, prev, others>>

\* the consumer asks for the next event: the generator is exhausted
Finish ==
    /\ pc = "yield_post"
    /\ pc' = "done"
    /\ UNCHANGED <<request, hook, conn_held, attempt, events, queries, responses,
                   sleeps, cancel, run, prev, others>>

\* variant: the cancellation is caught and reported as a failure event
Cancel_EmitsFailure ==
    /\ pc \in {"query", "sleep"}
    /\ cancel' = [requested |-> TRUE, events |-> Len(events), queries |-> Len(queries)]
    /\ events' = Append(events, [status |-> "failure", message |-> <<"cancelled">>])
    /\ conn_held' = FALSE
    /\ pc' = "cancelled"
    /\ UNCHANGED <<request, hook, attempt, queries, responses, sleeps, run, prev, others>>

\* variant: the connection is closed by hand at the end of the block, so a
\* cancellation leaves it open
Cancel_NoRelease ==
    /\ pc \in {"query", "sleep"}
    /\ cancel' = [requested |-> TRUE, events |-> Len(events), queries |-> Len(queries)]
    /\ pc' = "cancelled"
    /\ UNCHANGED <<request, hook, conn_held, attempt, events, queries, responses,
                   sleeps, run, prev, others>>

\* the host cancels the task while run() is suspended in the wait or in the
\* sleep: CancelledError is raised there, no except clause takes it, the
\* async with block is left and the error leaves run()
Cancel ==
    /\ pc \in {"query", "sleep"}
    /\ cancel' = [requested |-> TRUE, events |-> Len(events), queries |-> Len(queries)]
    /\ conn_held' = FALSE
    /\ pc' = "cancelled"
    /\ UNCHANGED <<request, hook, attempt, events, queries, responses, sleeps,
                   run, prev, others>>

\* the consumer closes the generator while it is suspended at a yield:
\* GeneratorExit is raised there and leaves the async with block, if inside
Aclose ==
    /\ pc \in {"yield_loop", "yield_post"}
    /\ conn_held' = FALSE
    /\ pc' = "closed"
    /\ UNCHANGED <<request, hook, attempt, events, queries, responses, sleeps,
                   cancel, run, prev, others>>

Ended == pc \in {"done", "raised", "cancelled", "closed"}

\* run() is called again on the same trigger object: a new generator, the
\* same attributes and the same cached hook
Rerun ==
    /\ Ended
    /\ run < MaxRuns
    /\ run' = run + 1
    /\ prev' = [valid |-> TRUE, pc |-> pc, events |-> events, queries |-> queries,
                responses |-> responses, sleeps |-> sleeps]
    /\ pc' = "start"
    /\ events' = <<>>
    /\ queries' = <<>>
    /\ responses' = <<>>
    /\ sleeps' = <<>>
    /\ cancel' = NoCancel
    /\ UNCHANGED <<request, hook, conn_held, attempt, others>>

Next ==
    \/ Enter
    \/ LoopIter
    \/ WaitReturns
    \/ ResumeInLoop
    \/ SleepReturns
    \/ PostLoop
    \/ Finish
    \/ Cancel
    \/ Aclose
    \/ Rerun

Spec == Init /\ [][Next]_vars

(* ---------------- provider behaviours named by the properties ---------- *)

\* the job is not done yet: the wait ran out of attempts, status attached
PendingResponse == [kind |-> "WaiterError", text |-> MaxAttemptsText, has_status |-> TRUE]
\* the job completed
SucceededResponse == [kind |-> "ok"]
\* the provider reports that the job can never succeed
TerminalResponses == [kind : {"WaiterError"}, text : {TerminalText, JobKilledText},
                      has_status : BOOLEAN]

AllPending(s) == \A i \in 1 .. Len(s) : s[i] = PendingResponse

\* Pending on attempts 1..k-1 and a response of `last` on attempt k
PendingThen(s, last) ==
    /\ Len(s) >= 1
    /\ \A i \in 1 .. Len(s) - 1 : s[i] = PendingResponse
    /\ s[Len(s)] \in last

IsFailure(e) == e.status = "failure"
IsSuccess(e) == e.status = "success"

(* ---------------- C1 ---------------- *)

\* C1: one run of run() emits exactly one event in total: a completed run has
\* emitted one event, and no run ever emits a second one (after the
\* terminal-failure event of the loop no post-loop event follows).
C1_ExactlyOneEvent ==
    /\ pc = "done" => Len(events) = 1
    /\ Len(events) <= 1

(* ---------------- C2 ---------------- *)

\* C2: when the provider reports Pending on attempts 1..k-1 and Succeeded on
\* attempt k <= max_retries (k = max_retries included), the completed run has
\* made exactly k queries and its outcome is the success event with job_id.
C2_SuccessOnAttemptK ==
    (pc = "done" /\ PendingThen(responses, {SucceededResponse}))
        => /\ Len(queries) = Len(responses)
           /\ Len(events) = 1
           /\ IsSuccess(events[1])
           /\ events[1].job_id = job_id

(* ---------------- C3 ---------------- *)

\* C3: when the provider reports Pending on attempts 1..k-1 and a terminal
\* failure on attempt k, exactly k queries have been made and no further one
\* is ever made, and a failure event whose message contains "terminal failure"
\* has been emitted.
C3_TerminalFailureStops ==
    PendingThen(responses, TerminalResponses)
        => /\ Len(queries) = Len(responses)
           /\ Len(queries) <= max_retries
           /\ Len(events) >= 1
           /\ IsFailure(events[1])
           /\ Contains(events[1].message, "terminal failure")

\* a completed run whose second attempt reported the terminal failure
C3_Witness ==
    /\ pc = "done"
    /\ Len(responses) = 2
    /\ PendingThen(responses, TerminalResponses)
    /\ max_retries > 2

(* ---------------- C4 ---------------- *)

\* C4: when the provider reports Pending on every query and max_retries >= 1,
\* the run never makes more than max_retries queries, and once it has emitted
\* its event it has made exactly max_retries queries and the event is the one
\* failure whose message says "max attempts reached".
C4_PendingExhausts ==
    (max_retries >= 1 /\ AllPending(responses))
        => /\ Len(queries) <= max_retries
           /\ pc \in {"yield_post", "done"}
                => /\ Len(queries) = max_retries
                   /\ Len(responses) = max_retries
                   /\ Len(events) = 1
                   /\ IsFailure(events[1])
                   /\ Contains(events[1].message, "max attempts reached")

\* a completed run of MaxRetries Pending answers
C4_Witness ==
    /\ pc = "done"
    /\ max_retries = MaxRetries
    /\ Len(responses) = MaxRetries
    /\ AllPending(responses)

(* ---------------- C5 ---------------- *)

\* the answer to the latest query has arrived and no newer query was made
LastAnswered == Len(responses) >= 1 /\ Len(responses) = Len(queries)
LastResponse == responses[Len(responses)]

\* provider errors that are not terminal failures
NonTerminalErrors == (Responses \ {SucceededResponse}) \ TerminalResponses
\* those of them that are WaiterErrors carrying the job status
StatusWaiterErrors == {r \in NonTerminalErrors : r.kind = "WaiterError" /\ r.has_status}

TerminalSeen == \E i \in 1 .. Len(responses) : responses[i] \in TerminalResponses
PendingExhausted ==
    /\ max_retries >= 1
    /\ Len(responses) = max_retries
    /\ AllPending(responses)
    /\ pc \notin {"query", "sleep", "cancelled"}

\* C6: when the job terminally fails, or max_retries is exhausted by Pending
\* answers, run() does not raise: it emits a failure event and, when the
\* consumer drains it, completes normally.
C6_JobFailureIsAnEvent ==
    (TerminalSeen \/ PendingExhausted)
        => /\ pc # "raised"
           /\ pc \in {"yield_loop", "yield_post", "done", "closed"}
                => \E i \in 1 .. Len(events) : IsFailure(events[i])

\* a completed run after a terminal failure
C6_Witness ==
    /\ pc = "done"
    /\ TerminalSeen
    /\ \E i \in 1 .. Len(events) : IsFailure(events[i])

(* ---------------- C7 ---------------- *)

\* C7: once the host has cancelled run() in a wait or a sleep, no event is
\* emitted and no query is made at or after the cancellation, and the run is
\* over.
C7_CancelEmitsNothing ==
    cancel.requested
        => /\ Len(events) = cancel.events
           /\ Len(queries) = cancel.queries
           /\ pc = "cancelled"

\* cancelled in the sleep before attempt 2
C7_Witness ==
    /\ cancel.requested
    /\ pc = "cancelled"
    /\ responses = <<PendingResponse>>
    /\ Len(queries) = 1
    /\ events = <<>>
    /\ max_retries >= 2

(* ---------------- C8 ---------------- *)

\* C8: the client connection is not held once control has left the async with
\* block, whichever way: loop exit, exception, cancellation or close.
C8_ConnectionReleased ==
    pc \in {"post_loop", "yield_post", "done", "raised", "cancelled", "closed"}
        => ~conn_held

\* a run cancelled in a wait, after the connection was acquired
C8_Witness ==
    /\ pc = "cancelled"
    /\ Len(queries) = Len(responses) + 1
    /\ hook.cached
    /\ ~conn_held

(* ---------------- C9 ---------------- *)

\* the counter exists from the assignment attempt = 0 on
InRun == pc # "start"

\* the counter is 0 when run() sets it and afterwards only stays or grows by 1
CounterSteps ==
    [][InRun' => IF InRun THEN attempt' \in {attempt, attempt + 1}
                          ELSE attempt' = 0]_vars

\* C9 (as stated): in every state of a run the counter equals the number of
\* queries made so far and never exceeds max_retries, whatever max_retries is.
C9_CounterBoundedByMax ==
    InRun => /\ attempt = Len(queries)
             /\ attempt <= max_retries
             /\ max_retries <= 0 => Len(queries) = 0

\* C9 (amended): the counter starts at 0, only ever changes by +1, equals the
\* number of queries made so far, and never exceeds max_retries when
\* max_retries >= 0; for max_retries <= 0 it stays 0 and no query is made.
C9_CounterBoundedByMaxOrZero ==
    /\ [](InRun => /\ attempt = Len(queries)
                   /\ attempt <= (IF max_retries >= 0 THEN max_retries ELSE 0)
                   /\ max_retries <= 0 => Len(queries) = 0)
    /\ CounterSteps

\* the counter at its bound after max_retries queries
C9_Witness ==
    /\ InRun
    /\ max_retries = MaxRetries
    /\ attempt = MaxRetries
    /\ Len(queries) = MaxRetries

(* ---------------- C10 ---------------- *)

Completed(p) == p \in {"done", "raised"}

\* C10: when run() is started again on the same trigger and the provider gives
\* the same answers as in the previous run, the completed run has made the
\* same queries (same arguments, same hook), slept the same and emitted the
\* same events as the previous one, and ended the same way.
C10_RerunIsIdentical ==
    (prev.valid /\ Completed(pc) /\ Completed(prev.pc) /\ responses = prev.responses)
        => /\ queries = prev.queries
           /\ events = prev.events
           /\ sleeps = prev.sleeps
           /\ pc = prev.pc

\* a second run that repeated a first run of two answers
C10_Witness ==
    /\ run = 2
    /\ prev.valid
    /\ pc = "done"
    /\ prev.pc = "done"
    /\ Len(responses) = 2
    /\ responses = prev.responses
    /\ prev.events # <<>>

(* ---------------- serialization and restart ---------------- *)

\* the classpath returned by serialize()
ClassPath == "airflow.providers.amazon.aws.triggers.batch.BatchOperatorTrigger"

\* the attributes of the trigger object
Self ==
    [job_id |-> job_id, max_retries |-> max_retries, aws_conn_id |-> aws_conn_id,
     region_name |-> region_name, poll_interval |-> poll_interval]

\* variant: poll_interval is left out of the kwargs, so the constructor's
\* default of 30 comes back
serialize_DefaultPoll(self) ==
    [classpath |-> ClassPath,
     kwargs |-> [job_id |-> self.job_id, max_retries |-> self.max_retries,
                 aws_conn_id |-> self.aws_conn_id, region_name |-> self.region_name,
                 poll_interval |-> 30]]

\* serialize(): the classpath and the five constructor arguments
serialize(self) ==
    [classpath |-> ClassPath,
     kwargs |-> [job_id |-> self.job_id, max_retries |-> self.max_retries,
                 aws_conn_id |-> self.aws_conn_id, region_name |-> self.region_name,
                 poll_interval |-> self.poll_interval]]

\* __init__(**kwargs): each argument is stored under its own name
TriggerInit(kwargs) ==
    [job_id |-> kwargs.job_id, max_retries |-> kwargs.max_retries,
     aws_conn_id |-> kwargs.aws_conn_id, region_name |-> kwargs.region_name,
     poll_interval |-> kwargs.poll_interval]

\* the host serializes the trigger and keeps the result
Serialize ==
    /\ ~serialized.valid
    /\ serialized' = [valid |-> TRUE, form |-> serialize(Self), of |-> Self]
    /\ UNCHANGED <<request, hook, conn_held, attempt, pc, events, queries,
                   responses, sleeps, cancel, run, prev, earlier_queries, dd>>

\* the host restarts: the running generator is gone with its process, and a
\* new trigger object is constructed from the kept kwargs; its run() has not
\* started, its hook is not computed
Restart ==
    /\ serialized.valid
    /\ run < MaxRuns
    /\ LET t == TriggerInit(serialized.form.kwargs)
       IN /\ job_id' = t.job_id
          /\ max_retries' = t.max_retries
          /\ aws_conn_id' = t.aws_conn_id
          /\ region_name' = t.region_name
          /\ poll_interval' = t.poll_interval
    /\ hook' = NoHook
    /\ conn_held' = FALSE
    /\ pc' = "start"
    /\ events' = <<>>
    /\ queries' = <<>>
    /\ responses' = <<>>
    /\ sleeps' = <<>>
    /\ cancel' = NoCancel
    /\ run' = run + 1
    /\ prev' = NoPrev
    /\ earlier_queries' = earlier_queries + Len(queries)
    /\ UNCHANGED <<attempt, serialized, dd>>

\* one trigger, serialized at some point and possibly reconstructed after a
\* host restart, its events drained by the consumer
RestartNext ==
    \/ Enter
    \/ LoopIter
    \/ WaitReturns
    \/ ResumeInLoop
    \/ SleepReturns
    \/ PostLoop
    \/ Finish
    \/ Serialize
    \/ Restart

RestartSpec == Init /\ [][RestartNext]_vars

(* ---------------- C11 ---------------- *)

SerializedKeys == {"job_id", "max_retries", "aws_conn_id", "region_name", "poll_interval"}

\* C11: the serialized form is the classpath with exactly the five constructor
\* arguments at the values the trigger had; a trigger constructed from the
\* kwargs has the same attributes as the serialized one and serializes to the
\* same form; the trigger the host reconstructs keeps those attributes.
C11_SerializeRoundTrip ==
    serialized.valid
        => /\ serialized.form.classpath = ClassPath
           /\ DOMAIN serialized.form.kwargs = SerializedKeys
           /\ \A k \in SerializedKeys : serialized.form.kwargs[k] = serialized.of[k]
           /\ TriggerInit(serialized.form.kwargs) = serialized.of
           /\ serialize(TriggerInit(serialized.form.kwargs)) = serialized.form
           /\ Self = serialized.of

\* a trigger reconstructed from its serialized form, with a poll interval
\* other than the constructor's default
C11_Witness ==
    /\ serialized.valid
    /\ run = 2
    /\ prev = NoPrev
    /\ poll_interval = 1
    /\ region_name = "eu-west-1"
    /\ pc = "query"

(* ---------------- C12 ---------------- *)

\* the two shapes of an event
HasShape(e) ==
    \/ /\ DOMAIN e = {"status", "job_id"}
       /\ e.status = "success"
       /\ e.job_id = job_id
    \/ /\ DOMAIN e = {"status", "message"}
       /\ e.status = "failure"

\* the terminal failure the provider reported in this run
TerminalReported(r) == \E i \in 1 .. Len(responses) : responses[i] = r /\ r \in TerminalResponses

\* e carries the whole text of a terminal failure reported in this run
CarriesTerminalDetail(e) ==
    \E r \in TerminalResponses :
        /\ TerminalReported(r)
        /\ \A i \in 1 .. Len(r.text) : Contains(e.message, r.text[i])

\* C12: every emitted event is a success with the job_id or a failure with a
\* message, and every failure's message names its cause: the provider's
\* terminal-failure detail when the job terminally failed, "max attempts
\* reached" when the attempts ran out without one.
C12_FailureNamesItsCause ==
    \A i \in 1 .. Len(events) :
        /\ HasShape(events[i])
        /\ IsFailure(events[i]) =>
              IF TerminalSeen
              THEN CarriesTerminalDetail(events[i])
              ELSE Contains(events[i].message, "max attempts reached")

(* ---------------- C13 ---------------- *)

\* C13: a success event is emitted only when the latest query of the run
\* reported completion; never after a terminal failure, never without a
\* successful query.
C13_SuccessOnlyAfterSucceeded ==
    \A i \in 1 .. Len(events) :
        IsSuccess(events[i])
            => /\ Len(responses) >= 1
               /\ LastResponse = SucceededResponse
               /\ ~TerminalSeen

(* ---------------- C14 ---------------- *)

\* the answers run() treats as pending or transient
AllTransient(s) == \A i \in 1 .. Len(s) : s[i] \in StatusWaiterErrors

\* C14: the failure "max attempts reached" is emitted only when the loop bound
\* was reached with every query of the run pending or transient; never in a
\* run where a query succeeded or reported a terminal failure.
C14_ExhaustionOnlyWhenAllPending ==
    \A i \in 1 .. Len(events) :
        (IsFailure(events[i]) /\ Contains(events[i].message, "max attempts reached"))
            => /\ AllTransient(responses)
               /\ Len(responses) >= max_retries
               /\ attempt >= max_retries

(* ---------------- C15 ---------------- *)

\* how many answers of the run were classified pending or transient
RECURSIVE NumTransient(_)
NumTransient(s) ==
    IF s = <<>> THEN 0
    ELSE NumTransient(SubSeq(s, 1, Len(s) - 1))
         + (IF s[Len(s)] \in StatusWaiterErrors THEN 1 ELSE 0)

\* the sleep that follows the latest answer has not completed (it is running,
\* or the run was cancelled in it)
SleepPending == pc \in {"sleep", "cancelled"} /\ LastAnswered
                /\ LastResponse \in StatusWaiterErrors

\* C15: every completed sleep lasts poll_interval; each attempt classified
\* pending or transient is followed by exactly one sleep before the next query
\* or any event (the last allowed attempt included), no sleep follows a
\* success or a terminal failure, consecutive queries are one sleep apart, and
\* a run sleeps at most max_retries times.
C15_OneSleepPerPendingAttempt ==
    InRun =>
        /\ \A i \in 1 .. Len(sleeps) : sleeps[i] = poll_interval
        /\ Len(sleeps) = NumTransient(responses) - (IF SleepPending THEN 1 ELSE 0)
        /\ pc = "query" => Len(sleeps) = Len(queries) - 1
        /\ pc = "sleep" => LastAnswered /\ LastResponse \in StatusWaiterErrors
        /\ Len(sleeps) <= (IF max_retries >= 0 THEN max_retries ELSE 0)
        /\ (events # <<>> /\ AllTransient(responses)) => Len(sleeps) = Len(responses)

\* the exhaustion failure emitted after the sleep that follows the last
\* allowed attempt
C15_Witness ==
    /\ pc = "yield_post"
    /\ max_retries = MaxRetries
    /\ AllPending(responses)
    /\ Len(responses) = MaxRetries
    /\ Len(sleeps) = MaxRetries
    /\ Len(events) = 1

(* ---------------- C16 ---------------- *)

\* one run that the host does not cancel and whose events the consumer drains
LiveNext ==
    \/ Enter
    \/ LoopIter
    \/ WaitReturns
    \/ ResumeInLoop
    \/ SleepReturns
    \/ PostLoop
    \/ Finish

\* every awaited wait and sleep returns, the coroutine's own steps are taken,
\* and the consumer keeps asking for the next event
LiveSpec ==
    /\ Init
    /\ [][LiveNext]_vars
    /\ WF_vars(Enter)
    /\ WF_vars(LoopIter)
    /\ WF_vars(WaitReturns)
    /\ WF_vars(ResumeInLoop)
    /\ WF_vars(SleepReturns)
    /\ WF_vars(PostLoop)
    /\ WF_vars(Finish)

\* C16: when every wait and sleep returns and the host does not cancel, the
\* run ends (the generator finishes or raises), whatever the provider answers
\* and whatever max_retries is, and it never makes more than max_retries
\* queries.
C16_RunTerminates ==
    /\ [](Len(queries) <= (IF max_retries >= 0 THEN max_retries ELSE 0))
    /\ <>Completed(pc)

\* a run that ended after using every allowed attempt
C16_Witness ==
    /\ pc = "done"
    /\ max_retries = MaxRetries
    /\ Len(queries) = MaxRetries
    /\ cancel = NoCancel

(* ---------------- C17 ---------------- *)

\* C17: in a run in which a query reports a terminal failure, that query is
\* the last one, within the allowed attempts, and the first event is the
\* failure carrying the provider's text; it is emitted inside the loop, with
\* the connection still held and nothing emitted before it.
C17_FirstEventIsTerminalFailure ==
    TerminalSeen
        => /\ LastAnswered
           /\ LastResponse \in TerminalResponses
           /\ Len(responses) <= max_retries
           /\ Len(events) >= 1
           /\ events[1] = [status |-> "failure",
                           message |-> <<"Delete Cluster Failed: ">> \o LastResponse.text]
           /\ pc = "yield_loop" => (conn_held /\ Len(events) = 1)

\* the terminal failure reported on the last allowed attempt, its event just
\* emitted
C17_Witness ==
    /\ pc = "yield_loop"
    /\ TerminalSeen
    /\ Len(responses) = MaxRetries
    /\ max_retries = MaxRetries
    /\ Len(events) = 1

(* ---------------- C18 ---------------- *)

\* C18: the serialized kwargs hold no counter; a trigger reconstructed after
\* j queries counts its own queries from 0, so it may make max_retries queries
\* of its own: the bound holds for each run, and the job has then been
\* queried j + (queries of this run) times.
C18_CounterNotSerialized ==
    /\ serialized.valid => DOMAIN serialized.form.kwargs = SerializedKeys
    /\ (InRun /\ earlier_queries >= 1)
          => /\ attempt = Len(queries)
             /\ Len(queries) <= (IF max_retries >= 0 THEN max_retries ELSE 0)
             /\ (pc = "post_loop" /\ AllPending(responses)) => Len(queries) = max_retries

\* after a restart that followed j >= 1 queries, the new run has used all
\* max_retries attempts: the job was queried more than max_retries times
C18_Witness ==
    /\ earlier_queries >= 1
    /\ run = 2
    /\ max_retries = MaxRetries
    /\ Len(queries) = MaxRetries
    /\ earlier_queries + Len(queries) > max_retries
    /\ pc = "done"

(* ---------------- DatadogHook ---------------- *)

\* how many hook methods are called in one behaviour
MaxDdCalls == 2

\* what the Datadog API can answer: a dict with a status and a body, or a
\* dict without the status key
DdResponses ==
    [status : {"ok", "error", "warning"}, body : {"payload-a", "payload-b"}]
    \cup {[body |-> "payload-a"]}

DdHosts == {"None", "worker-1"}
DdSourceTypes == {"None", "airflow"}

\* variant: the error is logged but not raised
validate_response_LogOnly(response) == "None"

\* validate_response: None when the status is 'ok', AirflowException for
\* another status; the subscript raises KeyError when there is no status
validate_response(response) ==
    IF "status" \notin DOMAIN response THEN "KeyError"
    ELSE IF response.status # "ok" THEN "AirflowException"
    ELSE "None"

\* the two last statements of each method: validate, then return the response
ValidateAndReturn(response) ==
    IF validate_response(response) = "None"
    THEN [kind |-> "return", value |-> response]
    ELSE [kind |-> "raise", exception |-> validate_response(response)]

\* the method `op` makes the API call `call`, gets `response` and ends
DdMethod(op, call, response) ==
    /\ dd.pc = "ready"
    /\ Len(dd.results) < MaxDdCalls
    /\ dd' = [dd EXCEPT !.ops = Append(@, op),
                        !.api_calls = Append(@, call),
                        !.responses = Append(@, response),
                        !.results = Append(@, ValidateAndReturn(response))]
    /\ UNCHANGED <<request, hook, conn_held, attempt, pc, events, queries, responses,
                   sleeps, cancel, run, prev, serialized, earlier_queries>>

\* send_metric
SendMetric ==
    \E metric_name \in {"records.read"}, datapoint \in {1, 7}, response \in DdResponses :
        DdMethod("send_metric",
                 [api |-> "Metric.send", metric |-> metric_name, points |-> datapoint,
                  host |-> dd.host],
                 response)

\* query_metric
QueryMetric ==
    \E query \in {"avg:records.read"}, now \in {1000}, from_seconds_ago \in {60},
       to_seconds_ago \in {0, 30}, response \in DdResponses :
        DdMethod("query_metric",
                 [api |-> "Metric.query", start |-> now - from_seconds_ago,
                  end |-> now - to_seconds_ago, query |-> query],
                 response)

\* post_event
PostEvent ==
    \E title \in {"done"}, text \in {"finished", "alert"}, response \in DdResponses :
        DdMethod("post_event",
                 [api |-> "Event.create", title |-> title, text |-> text,
                  host |-> dd.host, source_type_name |-> dd.source_type_name],
                 response)

\* a constructed hook (api_key present), no method called yet
DatadogInit ==
    /\ job_id = "job-42"
    /\ max_retries = 1
    /\ aws_conn_id = "aws_default"
    /\ region_name = "None"
    /\ poll_interval = 30
    /\ hook = NoHook
    /\ conn_held = FALSE
    /\ attempt = 0
    /\ pc = "start"
    /\ events = <<>>
    /\ queries = <<>>
    /\ responses = <<>>
    /\ sleeps = <<>>
    /\ cancel = NoCancel
    /\ run = 1
    /\ prev = NoPrev
    /\ serialized = NoSerialized
    /\ earlier_queries = 0
    /\ \E h \in DdHosts, st \in DdSourceTypes :
          dd = [pc |-> "ready", host |-> h, source_type_name |-> st,
                ops |-> <<>>, api_calls |-> <<>>, responses |-> <<>>, results |-> <<>>]

DatadogNext ==
    \/ SendMetric
    \/ QueryMetric
    \/ PostEvent

DatadogSpec == DatadogInit /\ [][DatadogNext]_vars

(* ---------------- C19 ---------------- *)

\* the API entry point each method uses
ApiOf(op) ==
    CASE op = "send_metric" -> "Metric.send"
      [] op = "query_metric" -> "Metric.query"
      [] op = "post_event" -> "Event.create"

\* C19: each call of send_metric, query_metric or post_event has made exactly
\* one API call, to its own entry point; when the response's status is 'ok'
\* the method returned that response, and for any other status it raised
\* AirflowException and returned nothing.
C19_ReturnsIffOk ==
    dd.pc = "ready"
        => /\ Len(dd.api_calls) = Len(dd.ops)
           /\ Len(dd.results) = Len(dd.ops)
           /\ \A i \in 1 .. Len(dd.ops) :
                 /\ dd.api_calls[i].api = ApiOf(dd.ops[i])
                 /\ "status" \in DOMAIN dd.responses[i] =>
                       IF dd.responses[i].status = "ok"
                       THEN dd.results[i] = [kind |-> "return", value |-> dd.responses[i]]
                       ELSE dd.results[i] = [kind |-> "raise", exception |-> "AirflowException"]

\* an ok response returned by one method and an error response refused by
\* another
C19_Witness ==
    /\ dd.pc = "ready"
    /\ Len(dd.results) = 2
    /\ dd.ops[1] = "send_metric"
    /\ dd.results[1].kind = "return"
    /\ dd.ops[2] = "post_event"
    /\ "status" \in DOMAIN dd.responses[2]
    /\ dd.responses[2].status = "error"
    /\ dd.results[2].kind = "raise"

====
